---- MODULE Spec2Model ----
(***************************************************************************)
(* A model of the singly linked stack of src/src/second.rs (List<T>, its   *)
(* three iterators and its Drop) and of src/src/first.rs (List over i32).  *)
(*                                                                         *)
(* Boxes are modelled as cells of a heap indexed by allocation order: the  *)
(* k-th Box::new of a run creates cell k.  A Link (Option<Box<Node<T>>>)   *)
(* is 0 for None and the cell's index for Some(box).  An Option<T> result  *)
(* is the empty sequence for None and <<v>> for Some(v).                   *)
(***************************************************************************)
EXTENDS Naturals, Sequences, FiniteSets

\* Bounds of the model.
MaxNodes == 4
MaxElem == 2

NodeIds == 1..MaxNodes
Elem == 1..MaxElem

None == <<>>
Some(v) == <<v>>

VARIABLES
  heap,       \* [NodeIds -> Node]: the boxes ever allocated by second.rs push
  nalloc,     \* how many boxes Box::new has allocated so far
  released,   \* [NodeIds -> Nat]: how many times each box was released
  head,       \* List.head
  owner,      \* who holds the List: "list", "into_iter", "dropping", "dropped"
  cur_link,   \* the local cur_link of drop
  depth,      \* deepest nesting of box releases seen during drop
  iter_live,  \* an Iter borrowed from the list is alive
  iter_next,  \* Iter.next
  iter_out,   \* the elements that Iter has yielded
  iter_prev,  \* <<s>> when an Iter ran to its end yielding s and the list has
              \* not been borrowed mutably since; <<>> otherwise
  itm_live,   \* the exclusive borrow taken by iter_mut is alive
  itm_next,   \* IterMut.next
  handed,     \* the nodes whose &mut elem IterMut has yielded, in order
  pm_ref,     \* the node whose elem the reference returned by peek_mut points to
  op,         \* the last operation
  arg,        \* its argument (0 when it takes none)
  prev_op,    \* the operation before it
  prev_arg,   \* and its argument
  prev_ret,   \* and what it returned
  pos,        \* which of IterMut's references the last operation wrote through
              \* (0 when it wrote through none)
  ret,        \* the Option the last operation returned (None for push, iter, ...)
  before,     \* the list's element sequence before the last operation
  first_heap,      \* [NodeIds -> Node]: the boxes allocated by first.rs push
  first_nalloc,    \* how many of them so far
  first_released,  \* [NodeIds -> Nat]: how many times each was released
  first_head,      \* first.rs List.head (0 for Link::Empty)
  first_owner,     \* "list", "dropping", "dropped"
  first_cur_link,  \* the local cur_link of first.rs drop
  first_depth,     \* deepest nesting of box releases seen during first.rs drop
  first_op,        \* the last operation on the first.rs list
  first_arg,       \* its argument
  first_ret,       \* the Option<i32> it returned
  first_before     \* the first.rs list's element sequence before it

vars == <<heap, nalloc, released, head, owner, cur_link, depth, iter_live,
          iter_next, iter_out, iter_prev, itm_live, itm_next, handed, pm_ref,
          op, arg, prev_op, prev_arg, prev_ret, pos, ret, before, first_heap, first_nalloc,
          first_released, first_head, first_owner, first_cur_link,
          first_depth, first_op, first_arg, first_ret, first_before>>

\* The state of the second.rs list and of the first.rs list.
second_vars == <<heap, nalloc, released, head, owner, cur_link, depth,
                 iter_live, iter_next, iter_out, iter_prev, itm_live,
                 itm_next, handed, pm_ref, op, arg, prev_op, prev_arg,
                 prev_ret, pos, ret, before>>

first_vars == <<first_heap, first_nalloc, first_released, first_head,
                first_owner, first_cur_link, first_depth, first_op,
                first_arg, first_ret, first_before>>

\* struct Node<T> { elem: T, next: Link<T> }; live is whether the box exists.
Node(e, l) == [elem |-> e, next |-> l, live |-> TRUE]
\* A cell that holds no box: never allocated, or released.
NoNode == [elem |-> 0, next |-> 0, live |-> FALSE]

\* The nodes reached by following next from link l, at most fuel of them.
RECURSIVE ChainFrom(_, _, _)
ChainFrom(hp, l, fuel) ==
  IF l = 0 \/ fuel = 0 THEN <<>>
  ELSE <<l>> \o ChainFrom(hp, hp[l].next, fuel - 1)

\* The chain owned by link l.
Chain(hp, l) == ChainFrom(hp, l, MaxNodes + 1)

\* The elements of the chain owned by link l, nearest first.
Contents(hp, l) == [i \in 1..Len(Chain(hp, l)) |-> hp[Chain(hp, l)[i]].elem]

Max(a, b) == IF a >= b THEN a ELSE b

Range(s) == {s[i] : i \in 1..Len(s)}

\* The boxes that exist.
LiveNodes == {n \in NodeIds : heap[n].live}

\* The list's element sequence, head first.
Elems == Contents(heap, head)

\* The history of calls: the operation, its argument, and the element sequence
\* it started from.
LogAt(name, a, k) ==
  /\ op' = name
  /\ arg' = a
  /\ pos' = k
  /\ prev_op' = op
  /\ prev_arg' = arg
  /\ prev_ret' = ret
  /\ before' = Elems

Log(name, a) == LogAt(name, a, 0)

\* The end of the shared borrow an Iter holds (its last use is behind).
EndShared ==
  /\ iter_live' = FALSE
  /\ iter_next' = 0
  /\ iter_out' = <<>>
  /\ iter_prev' = <<>>

\* The end of the exclusive borrows held by an IterMut and the references it
\* yielded, and by the reference peek_mut returned.
EndIterMut ==
  /\ itm_live' = FALSE
  /\ itm_next' = 0
  /\ handed' = <<>>

EndExclusive ==
  /\ EndIterMut
  /\ pm_ref' = 0

\* List::new: List { head: None }.
new ==
  /\ heap = [n \in NodeIds |-> NoNode]
  /\ nalloc = 0
  /\ released = [n \in NodeIds |-> 0]
  /\ head = 0
  /\ owner = "list"
  /\ cur_link = 0
  /\ depth = 0
  /\ iter_live = FALSE
  /\ iter_next = 0
  /\ iter_out = <<>>
  /\ iter_prev = <<>>
  /\ itm_live = FALSE
  /\ itm_next = 0
  /\ handed = <<>>
  /\ pm_ref = 0
  /\ op = "new"
  /\ arg = 0
  /\ prev_op = "none"
  /\ prev_arg = 0
  /\ prev_ret = None
  /\ pos = 0
  /\ ret = None
  /\ before = <<>>

\* first.rs List::new: List { head: Link::Empty }.
first_new ==
  /\ first_heap = [n \in NodeIds |-> NoNode]
  /\ first_nalloc = 0
  /\ first_released = [n \in NodeIds |-> 0]
  /\ first_head = 0
  /\ first_owner = "list"
  /\ first_cur_link = 0
  /\ first_depth = 0
  /\ first_op = "new"
  /\ first_arg = 0
  /\ first_ret = None
  /\ first_before = <<>>

Init == new /\ first_new

\* push with next: None in place of self.head.take(): the assignment to head
\* then drops the old chain.
push_nolink(elem) ==
  /\ owner = "list"
  /\ nalloc < MaxNodes
  /\ heap' = [n \in NodeIds |->
                IF n = nalloc + 1 THEN Node(elem, 0)
                ELSE IF n \in Range(Chain(heap, head)) THEN NoNode ELSE heap[n]]
  /\ released' = [n \in NodeIds |->
                    IF n \in Range(Chain(heap, head)) THEN released[n] + 1
                    ELSE released[n]]
  /\ head' = nalloc + 1
  /\ nalloc' = nalloc + 1
  /\ ret' = None
  /\ EndShared
  /\ EndExclusive
  /\ Log("push", elem)
  /\ UNCHANGED <<owner, cur_link, depth>>

\* List::push: the new box takes the old head as its next (self.head.take()),
\* and head owns the new box.
push(elem) ==
  /\ owner = "list"
  /\ nalloc < MaxNodes
  /\ heap' = [heap EXCEPT ![nalloc + 1] = Node(elem, head)]
  /\ head' = nalloc + 1
  /\ nalloc' = nalloc + 1
  /\ ret' = None
  /\ EndShared
  /\ EndExclusive
  /\ Log("push", elem)
  /\ UNCHANGED <<released, owner, cur_link, depth>>

\* pop that neither moves next out of the node nor frees the box: the node
\* stays behind, still linked to the new head.
pop_fn_nofree(hp, hd) ==
  IF hd = 0
  THEN [ret |-> None, head |-> 0, heap |-> hp, freed |-> {}]
  ELSE [ret |-> Some(hp[hd].elem), head |-> hp[hd].next, heap |-> hp,
        freed |-> {}]

\* pop without self.head = node.next: head stays None after the take, and the
\* rest of the chain is dropped with the node.
pop_fn_norelink(hp, hd) ==
  IF hd = 0
  THEN [ret |-> None, head |-> 0, heap |-> hp, freed |-> {}]
  ELSE [ret |-> Some(hp[hd].elem), head |-> 0,
        heap |-> [n \in NodeIds |-> IF n \in Range(Chain(hp, hd)) THEN NoNode ELSE hp[n]],
        freed |-> Range(Chain(hp, hd))]

\* What List::pop does to a list whose boxes are hp and whose head is hd:
\* self.head.take().map(|node| { self.head = node.next; node.elem }).  next and
\* elem are moved out of the box, which is then freed.
pop_fn(hp, hd) ==
  IF hd = 0
  THEN [ret |-> None, head |-> 0, heap |-> hp, freed |-> {}]
  ELSE [ret |-> Some(hp[hd].elem), head |-> hp[hd].next,
        heap |-> [hp EXCEPT ![hd] = NoNode], freed |-> {hd}]

\* pop_body that answers an empty list with a default element
\* (unwrap_or_default) in place of None.
pop_body_default ==
  /\ ret' = IF head = 0 THEN Some(0) ELSE pop_fn(heap, head).ret
  /\ head' = pop_fn(heap, head).head
  /\ heap' = pop_fn(heap, head).heap
  /\ released' = [n \in NodeIds |->
                    IF n \in pop_fn(heap, head).freed THEN released[n] + 1
                    ELSE released[n]]

\* The results of calling pop on the list (hp, hd) until it returns None, at
\* most fuel times.
RECURSIVE PopAllFrom(_, _, _)
PopAllFrom(hp, hd, fuel) ==
  IF pop_fn(hp, hd).ret = None \/ fuel = 0 THEN <<>>
  ELSE pop_fn(hp, hd).ret
         \o PopAllFrom(pop_fn(hp, hd).heap, pop_fn(hp, hd).head, fuel - 1)

PopAll(hp, hd) == PopAllFrom(hp, hd, MaxNodes + 1)

\* The body of List::pop on self.
pop_body ==
  /\ ret' = pop_fn(heap, head).ret
  /\ head' = pop_fn(heap, head).head
  /\ heap' = pop_fn(heap, head).heap
  /\ released' = [n \in NodeIds |->
                    IF n \in pop_fn(heap, head).freed THEN released[n] + 1
                    ELSE released[n]]

\* List::pop, called on the list.
pop ==
  /\ owner = "list"
  /\ pop_body
  /\ EndShared
  /\ EndExclusive
  /\ Log("pop", 0)
  /\ UNCHANGED <<nalloc, owner, cur_link, depth>>

\* peek that detaches the head node the way pop does.
peek_as_pop ==
  /\ owner = "list"
  /\ pop_body
  /\ EndExclusive
  /\ Log("peek", 0)
  /\ UNCHANGED <<nalloc, owner, cur_link, depth, iter_live, iter_next, iter_out, iter_prev>>

\* List::peek: self.head.as_ref().map(|node| &node.elem).
peek ==
  /\ owner = "list"
  /\ ret' = IF head = 0 THEN None ELSE Some(heap[head].elem)
  /\ EndExclusive
  /\ Log("peek", 0)
  /\ UNCHANGED <<heap, nalloc, released, head, owner, cur_link, depth,
                 iter_live, iter_next, iter_out, iter_prev>>

\* List::peek_mut: self.head.as_mut().map(|node| &mut node.elem).
peek_mut ==
  /\ owner = "list"
  /\ ret' = IF head = 0 THEN None ELSE Some(heap[head].elem)
  /\ pm_ref' = head
  /\ EndShared
  /\ EndIterMut
  /\ Log("peek_mut", 0)
  /\ UNCHANGED <<heap, nalloc, released, head, owner, cur_link, depth>>

\* A write that lands in a copy of the element (peek_mut returning a reference
\* to a temporary), never in the node.
peek_mut_write_copy(v) ==
  /\ owner = "list"
  /\ pm_ref # 0
  /\ ret' = None
  /\ Log("write", v)
  /\ UNCHANGED <<heap, nalloc, released, head, owner, cur_link, depth,
                 iter_live, iter_next, iter_out, iter_prev, itm_live, itm_next, handed,
                 pm_ref>>

\* A write through the reference peek_mut returned: |value| *value = v.
peek_mut_write(v) ==
  /\ owner = "list"
  /\ pm_ref # 0
  /\ heap' = [heap EXCEPT ![pm_ref].elem = v]
  /\ ret' = None
  /\ Log("write", v)
  /\ UNCHANGED <<nalloc, released, head, owner, cur_link, depth, iter_live,
                 iter_next, iter_out, iter_prev, itm_live, itm_next, handed, pm_ref>>

\* iter that goes on from where the previous Iter stopped, when there is one.
iter_resume ==
  /\ owner = "list"
  /\ iter_live' = TRUE
  /\ iter_next' = IF iter_live THEN iter_next ELSE head
  /\ iter_out' = <<>>
  /\ iter_prev' = iter_prev
  /\ ret' = None
  /\ EndExclusive
  /\ Log("iter", 0)
  /\ UNCHANGED <<heap, nalloc, released, head, owner, cur_link, depth>>

\* iter that starts at the node after the head.
iter_skip ==
  /\ owner = "list"
  /\ iter_live' = TRUE
  /\ iter_next' = IF head = 0 THEN 0 ELSE heap[head].next
  /\ iter_out' = <<>>
  /\ iter_prev' = iter_prev
  /\ ret' = None
  /\ EndExclusive
  /\ Log("iter", 0)
  /\ UNCHANGED <<heap, nalloc, released, head, owner, cur_link, depth>>

\* List::iter: Iter { next: self.head.as_deref() }.
iter ==
  /\ owner = "list"
  /\ iter_live' = TRUE
  /\ iter_next' = head
  /\ iter_out' = <<>>
  /\ iter_prev' = iter_prev
  /\ ret' = None
  /\ EndExclusive
  /\ Log("iter", 0)
  /\ UNCHANGED <<heap, nalloc, released, head, owner, cur_link, depth>>

\* Iter::next that, having reached the end, returns None once and starts over
\* from the head.
Iter_next_wrap ==
  /\ owner = "list"
  /\ iter_live
  /\ IF iter_next = 0
     THEN /\ ret' = None
          /\ iter_prev' = <<iter_out>>
          /\ iter_next' = head
          /\ iter_out' = <<>>
     ELSE /\ iter_next' = heap[iter_next].next
          /\ ret' = Some(heap[iter_next].elem)
          /\ iter_out' = Append(iter_out, heap[iter_next].elem)
          /\ iter_prev' = iter_prev
  /\ Log("iter_next", 0)
  /\ UNCHANGED <<heap, nalloc, released, head, owner, cur_link, depth,
                 iter_live, itm_live, itm_next, handed, pm_ref>>

\* Iter::next: self.next.map(|node| { self.next = node.next.as_deref();
\* &node.elem }).
Iter_next ==
  /\ owner = "list"
  /\ iter_live
  /\ IF iter_next = 0
     THEN /\ ret' = None
          /\ iter_prev' = <<iter_out>>
          /\ UNCHANGED <<iter_next, iter_out>>
     ELSE /\ iter_next' = heap[iter_next].next
          /\ ret' = Some(heap[iter_next].elem)
          /\ iter_out' = Append(iter_out, heap[iter_next].elem)
          /\ iter_prev' = iter_prev
  /\ Log("iter_next", 0)
  /\ UNCHANGED <<heap, nalloc, released, head, owner, cur_link, depth,
                 iter_live, itm_live, itm_next, handed, pm_ref>>

\* List::iter_mut: IterMut { next: self.head.as_deref_mut() }.
iter_mut ==
  /\ owner = "list"
  /\ itm_live' = TRUE
  /\ itm_next' = head
  /\ handed' = <<>>
  /\ pm_ref' = 0
  /\ ret' = None
  /\ EndShared
  /\ Log("iter_mut", 0)
  /\ UNCHANGED <<heap, nalloc, released, head, owner, cur_link, depth>>

\* IterMut::next that advances by two links, past the yielded node's successor.
IterMut_next_skip ==
  /\ owner = "list"
  /\ itm_live
  /\ IF itm_next = 0
     THEN /\ ret' = None
          /\ UNCHANGED <<itm_next, handed>>
     ELSE /\ itm_next' = IF heap[itm_next].next = 0 THEN 0
                         ELSE heap[heap[itm_next].next].next
          /\ ret' = Some(heap[itm_next].elem)
          /\ handed' = Append(handed, itm_next)
  /\ Log("iter_mut_next", 0)
  /\ UNCHANGED <<heap, nalloc, released, head, owner, cur_link, depth,
                 iter_live, iter_next, iter_out, iter_prev, itm_live, pm_ref>>

\* IterMut::next that keeps its hold on the node it yields: no take, and the
\* cursor is not moved on.
IterMut_next_keep ==
  /\ owner = "list"
  /\ itm_live
  /\ IF itm_next = 0
     THEN /\ ret' = None
          /\ UNCHANGED <<itm_next, handed>>
     ELSE /\ itm_next' = itm_next
          /\ ret' = Some(heap[itm_next].elem)
          /\ handed' = Append(handed, itm_next)
  /\ Log("iter_mut_next", 0)
  /\ UNCHANGED <<heap, nalloc, released, head, owner, cur_link, depth,
                 iter_live, iter_next, iter_out, iter_prev, itm_live, pm_ref>>

\* IterMut::next: self.next.take().map(|node| { self.next =
\* node.next.as_deref_mut(); &mut node.elem }).
IterMut_next ==
  /\ owner = "list"
  /\ itm_live
  /\ IF itm_next = 0
     THEN /\ ret' = None
          /\ UNCHANGED <<itm_next, handed>>
     ELSE /\ itm_next' = heap[itm_next].next
          /\ ret' = Some(heap[itm_next].elem)
          /\ handed' = Append(handed, itm_next)
  /\ Log("iter_mut_next", 0)
  /\ UNCHANGED <<heap, nalloc, released, head, owner, cur_link, depth,
                 iter_live, iter_next, iter_out, iter_prev, itm_live, pm_ref>>

\* A write through the k-th reference that lands in the node yielded last (the
\* references alias the iterator's current node).
IterMut_write_last(k, v) ==
  /\ owner = "list"
  /\ itm_live
  /\ k \in 1..Len(handed)
  /\ heap' = [heap EXCEPT ![handed[Len(handed)]].elem = v]
  /\ ret' = None
  /\ LogAt("iter_mut_write", v, k)
  /\ UNCHANGED <<nalloc, released, head, owner, cur_link, depth, iter_live,
                 iter_next, iter_out, iter_prev, itm_live, itm_next, handed,
                 pm_ref>>

\* A write through the k-th reference IterMut yielded (Item = &'a mut T).
IterMut_write(k, v) ==
  /\ owner = "list"
  /\ itm_live
  /\ k \in 1..Len(handed)
  /\ heap' = [heap EXCEPT ![handed[k]].elem = v]
  /\ ret' = None
  /\ LogAt("iter_mut_write", v, k)
  /\ UNCHANGED <<nalloc, released, head, owner, cur_link, depth, iter_live,
                 iter_next, iter_out, iter_prev, itm_live, itm_next, handed, pm_ref>>

\* List::into_iter: IntoIter(self).
into_iter ==
  /\ owner = "list"
  /\ owner' = "into_iter"
  /\ ret' = None
  /\ EndShared
  /\ EndExclusive
  /\ Log("into_iter", 0)
  /\ UNCHANGED <<heap, nalloc, released, head, cur_link, depth>>

\* IntoIter::next that reports the head element without popping it.
IntoIter_next_peek ==
  /\ owner = "into_iter"
  /\ ret' = IF head = 0 THEN None ELSE Some(heap[head].elem)
  /\ Log("into_iter_next", 0)
  /\ UNCHANGED <<heap, nalloc, released, head, owner, cur_link, depth,
                 iter_live, iter_next, iter_out, iter_prev, itm_live, itm_next, handed,
                 pm_ref>>

\* IntoIter::next: self.0.pop().
IntoIter_next ==
  /\ owner = "into_iter"
  /\ pop_body
  /\ Log("into_iter_next", 0)
  /\ UNCHANGED <<nalloc, owner, cur_link, depth, iter_live, iter_next,
                 iter_out, iter_prev, itm_live, itm_next, handed, pm_ref>>

\* The drop glue of a Link: releasing a box drops its Node, whose next is a
\* Link that is dropped the same way, one nested call per box of the chain.
drop_link(hp, l) ==
  /\ heap' = [n \in NodeIds |-> IF n \in Range(Chain(hp, l)) THEN NoNode ELSE hp[n]]
  /\ released' = [n \in NodeIds |->
                    released[n] + Cardinality({i \in 1..Len(Chain(hp, l)) : Chain(hp, l)[i] = n})]
  /\ depth' = Max(depth, Len(Chain(hp, l)))

\* A drop that copies head into cur_link and leaves head in place (no take):
\* the field's glue then drops head once more when drop returns.
drop_begin_copy ==
  /\ owner \in {"list", "into_iter"}
  /\ cur_link' = head
  /\ owner' = "dropping"
  /\ ret' = None
  /\ EndShared
  /\ EndExclusive
  /\ Log("drop", 0)
  /\ UNCHANGED <<heap, nalloc, released, head, depth>>

\* Drop for List<T>, entry: let mut cur_link = self.head.take().
drop_begin ==
  /\ owner \in {"list", "into_iter"}
  /\ cur_link' = head
  /\ head' = 0
  /\ owner' = "dropping"
  /\ ret' = None
  /\ EndShared
  /\ EndExclusive
  /\ Log("drop", 0)
  /\ UNCHANGED <<heap, nalloc, released, depth>>

\* A drop loop that lets boxed_node go with its next still in place
\* (cur_link = None in place of cur_link = boxed_node.next.take()).
drop_loop_naive ==
  /\ owner = "dropping"
  /\ cur_link # 0
  /\ cur_link' = 0
  /\ drop_link(heap, cur_link)
  /\ UNCHANGED <<nalloc, head, owner, iter_live, iter_next, iter_out, iter_prev,
                 itm_live, itm_next, handed, pm_ref, op, arg, prev_op, prev_arg, prev_ret, pos, ret,
                 before>>

\* Drop for List<T>, one turn of while let Some(mut boxed_node) = cur_link:
\* cur_link = boxed_node.next.take(), and boxed_node is dropped at the end of
\* the turn.
drop_loop ==
  /\ owner = "dropping"
  /\ cur_link # 0
  /\ cur_link' = heap[cur_link].next
  /\ drop_link([heap EXCEPT ![cur_link].next = 0], cur_link)
  /\ UNCHANGED <<nalloc, head, owner, iter_live, iter_next, iter_out, iter_prev,
                 itm_live, itm_next, handed, pm_ref, op, arg, prev_op, prev_arg, prev_ret, pos, ret,
                 before>>

\* Drop for List<T>, the loop's exit: drop returns and the field head is
\* dropped by its glue.
drop_end ==
  /\ owner = "dropping"
  /\ cur_link = 0
  /\ owner' = "dropped"
  /\ drop_link(heap, head)
  /\ UNCHANGED <<nalloc, head, cur_link, iter_live, iter_next, iter_out, iter_prev,
                 itm_live, itm_next, handed, pm_ref, op, arg, prev_op, prev_arg, prev_ret, pos, ret,
                 before>>

Next ==
  \/ \E e \in Elem : push(e) /\ UNCHANGED first_vars
  \/ pop /\ UNCHANGED first_vars
  \/ peek /\ UNCHANGED first_vars
  \/ peek_mut /\ UNCHANGED first_vars
  \/ \E v \in Elem : peek_mut_write(v) /\ UNCHANGED first_vars
  \/ iter /\ UNCHANGED first_vars
  \/ Iter_next /\ UNCHANGED first_vars
  \/ iter_mut /\ UNCHANGED first_vars
  \/ IterMut_next /\ UNCHANGED first_vars
  \/ \E k \in NodeIds, v \in Elem : IterMut_write(k, v) /\ UNCHANGED first_vars
  \/ into_iter /\ UNCHANGED first_vars
  \/ IntoIter_next /\ UNCHANGED first_vars
  \/ drop_begin /\ UNCHANGED first_vars
  \/ drop_loop /\ UNCHANGED first_vars
  \/ drop_end /\ UNCHANGED first_vars

\* The second.rs list under every sequence of calls.
Spec == Init /\ [][Next]_vars

\* drop is synchronous code that runs to its return: a started teardown takes
\* its next turn.
SpecFair ==
  /\ Spec
  /\ WF_vars(drop_loop /\ UNCHANGED first_vars)
  /\ WF_vars(drop_end /\ UNCHANGED first_vars)

\* The first.rs list's element sequence, head first.
first_Elems == Contents(first_heap, first_head)

first_LiveNodes == {n \in NodeIds : first_heap[n].live}

first_Log(name, a) ==
  /\ first_op' = name
  /\ first_arg' = a
  /\ first_before' = first_Elems

\* first.rs push with next: Link::Empty in place of the mem::replace: the
\* assignment to head then drops the old chain.
first_push_nolink(elem) ==
  /\ first_owner = "list"
  /\ first_nalloc < MaxNodes
  /\ first_heap' = [n \in NodeIds |->
                      IF n = first_nalloc + 1 THEN Node(elem, 0)
                      ELSE IF n \in Range(Chain(first_heap, first_head)) THEN NoNode
                      ELSE first_heap[n]]
  /\ first_released' = [n \in NodeIds |->
                          IF n \in Range(Chain(first_heap, first_head))
                          THEN first_released[n] + 1 ELSE first_released[n]]
  /\ first_head' = first_nalloc + 1
  /\ first_nalloc' = first_nalloc + 1
  /\ first_ret' = None
  /\ first_Log("push", elem)
  /\ UNCHANGED <<first_owner, first_cur_link, first_depth>>

\* first.rs List::push: next is mem::replace(&mut self.head, Link::Empty), and
\* head becomes Link::More(new_node).
first_push(elem) ==
  /\ first_owner = "list"
  /\ first_nalloc < MaxNodes
  /\ first_heap' = [first_heap EXCEPT ![first_nalloc + 1] = Node(elem, first_head)]
  /\ first_head' = first_nalloc + 1
  /\ first_nalloc' = first_nalloc + 1
  /\ first_ret' = None
  /\ first_Log("push", elem)
  /\ UNCHANGED <<first_released, first_owner, first_cur_link, first_depth>>

\* first.rs pop without self.head = node.next: head keeps the Link::Empty that
\* mem::replace left there, and the rest of the chain is dropped with the node.
first_pop_norelink ==
  /\ first_owner = "list"
  /\ IF first_head = 0
     THEN /\ first_ret' = None
          /\ UNCHANGED <<first_heap, first_head, first_released>>
     ELSE /\ first_head' = 0
          /\ first_ret' = Some(first_heap[first_head].elem)
          /\ first_heap' = [n \in NodeIds |->
                              IF n \in Range(Chain(first_heap, first_head)) THEN NoNode
                              ELSE first_heap[n]]
          /\ first_released' = [n \in NodeIds |->
                                  IF n \in Range(Chain(first_heap, first_head))
                                  THEN first_released[n] + 1 ELSE first_released[n]]
  /\ first_Log("pop", 0)
  /\ UNCHANGED <<first_nalloc, first_owner, first_cur_link, first_depth>>

\* first.rs List::pop: match mem::replace(&mut self.head, Link::Empty) {
\* Link::Empty => None, Link::More(node) => { self.head = node.next;
\* Some(node.elem) } }.
first_pop ==
  /\ first_owner = "list"
  /\ IF first_head = 0
     THEN /\ first_ret' = None
          /\ UNCHANGED <<first_heap, first_head, first_released>>
     ELSE /\ first_head' = first_heap[first_head].next
          /\ first_ret' = Some(first_heap[first_head].elem)
          /\ first_heap' = [first_heap EXCEPT ![first_head] = NoNode]
          /\ first_released' = [first_released EXCEPT ![first_head] = @ + 1]
  /\ first_Log("pop", 0)
  /\ UNCHANGED <<first_nalloc, first_owner, first_cur_link, first_depth>>

\* The drop glue of a first.rs Link: Link::More(box) drops the box, whose
\* Node's next is dropped the same way, one nested call per box.
first_drop_link(hp, l) ==
  /\ first_heap' = [n \in NodeIds |->
                      IF n \in Range(Chain(hp, l)) THEN NoNode ELSE hp[n]]
  /\ first_released' = [n \in NodeIds |->
                          first_released[n]
                            + Cardinality({i \in 1..Len(Chain(hp, l)) : Chain(hp, l)[i] = n})]
  /\ first_depth' = Max(first_depth, Len(Chain(hp, l)))

\* first.rs Drop for List, entry: let mut cur_link =
\* mem::replace(&mut self.head, Link::Empty).
first_drop_begin ==
  /\ first_owner = "list"
  /\ first_cur_link' = first_head
  /\ first_head' = 0
  /\ first_owner' = "dropping"
  /\ first_ret' = None
  /\ first_Log("drop", 0)
  /\ UNCHANGED <<first_heap, first_nalloc, first_released, first_depth>>

\* A first.rs drop loop that lets boxed_node go with its next still in place.
first_drop_loop_naive ==
  /\ first_owner = "dropping"
  /\ first_cur_link # 0
  /\ first_cur_link' = 0
  /\ first_drop_link(first_heap, first_cur_link)
  /\ UNCHANGED <<first_nalloc, first_head, first_owner, first_op, first_arg,
                 first_ret, first_before>>

\* first.rs Drop for List, one turn of while let Link::More(mut boxed_node) =
\* cur_link: cur_link = mem::replace(&mut boxed_node.next, Link::Empty), and
\* boxed_node is dropped at the end of the turn.
first_drop_loop ==
  /\ first_owner = "dropping"
  /\ first_cur_link # 0
  /\ first_cur_link' = first_heap[first_cur_link].next
  /\ first_drop_link([first_heap EXCEPT ![first_cur_link].next = 0], first_cur_link)
  /\ UNCHANGED <<first_nalloc, first_head, first_owner, first_op, first_arg,
                 first_ret, first_before>>

\* first.rs Drop for List, the loop's exit: drop returns and the field head
\* is dropped by its glue.
first_drop_end ==
  /\ first_owner = "dropping"
  /\ first_cur_link = 0
  /\ first_owner' = "dropped"
  /\ first_drop_link(first_heap, first_head)
  /\ UNCHANGED <<first_nalloc, first_head, first_cur_link, first_op,
                 first_arg, first_ret, first_before>>

NextFirst ==
  \/ \E e \in Elem : first_push(e) /\ UNCHANGED second_vars
  \/ first_pop /\ UNCHANGED second_vars
  \/ first_drop_begin /\ UNCHANGED second_vars
  \/ first_drop_loop /\ UNCHANGED second_vars
  \/ first_drop_end /\ UNCHANGED second_vars

\* The first.rs list under every sequence of calls.
SpecFirst == Init /\ [][NextFirst]_vars

\* The most recently allocated of the boxes S, which push allocates in order.
Newest(S) == CHOOSE m \in S : \A n \in S : n <= m

\* C1: LIFO order.  After any interleaving of operations, a pop returns the
\* element of the most recently pushed node that has not been popped, and
\* removes exactly that node; on a list with no node it returns None.  The
\* node nearest head is always the most recently pushed one still present.
C1_LIFO ==
  [][/\ op' = "pop" =>
          IF LiveNodes = {}
          THEN ret' = None /\ LiveNodes' = {}
          ELSE /\ ret' = Some(heap[Newest(LiveNodes)].elem)
               /\ LiveNodes' = LiveNodes \ {Newest(LiveNodes)}
     /\ (owner' = "list" /\ LiveNodes' # {}) => head' = Newest(LiveNodes')
    ]_vars

\* Two pops in a row, the second of a node pushed before the first's, with a
\* third node still in the list.
C1_Witness ==
  /\ op = "pop"
  /\ prev_op = "pop"
  /\ ret # None
  /\ head # 0

\* C2: whenever head is None, pop, peek and peek_mut return None and the list
\* is still empty afterwards.
C2_EmptyIsNone ==
  [][(head = 0 /\ op' \in {"pop", "peek", "peek_mut"}) =>
        /\ ret' = None
        /\ head' = 0
        /\ Elems' = <<>>
        /\ LiveNodes' = LiveNodes
    ]_vars

\* pop was called on a list that pops had drained.
C2_Witness ==
  /\ op = "pop"
  /\ prev_op = "pop"
  /\ before = <<>>
  /\ nalloc > 0
  /\ ret = None

\* C3: push(x) followed immediately by pop() returns x and leaves the element
\* sequence the list had before the push.
C3_PushPop ==
  [][(op = "push" /\ op' = "pop") =>
        /\ ret' = Some(arg)
        /\ Elems' = before
    ]_vars

\* pop was called right after a push onto a list of two elements or more.
C3_Witness ==
  /\ op = "pop"
  /\ prev_op = "push"
  /\ Len(Elems) >= 2
  /\ ret = Some(prev_arg)

\* C3 for the first.rs list, under SpecFirst: push(x) followed immediately by
\* pop() returns x and leaves the element sequence the list had before the push.
C3_PushPop_first ==
  [][(first_op = "push" /\ first_op' = "pop") =>
        /\ first_ret' = Some(first_arg)
        /\ first_Elems' = first_before
    ]_vars

\* The first.rs pop was called right after a push onto a list of two elements
\* or more.
C3_Witness_first ==
  /\ first_op = "pop"
  /\ first_ret # None
  /\ first_before = first_ret \o first_Elems
  /\ Len(first_Elems) >= 2

\* C4: peek and peek_mut leave the element sequence and the nodes unchanged,
\* and a pop that follows one of them returns the element it reported.
C4_PeekKeeps ==
  [][/\ op' \in {"peek", "peek_mut"} =>
          /\ Elems' = Elems
          /\ LiveNodes' = LiveNodes
          /\ head' = head
     /\ (op \in {"peek", "peek_mut"} /\ op' = "pop") => ret' = ret
    ]_vars

\* pop was called right after a peek_mut of a list of two elements or more.
C4_Witness ==
  /\ op = "pop"
  /\ prev_op = "peek_mut"
  /\ ret # None
  /\ Len(Elems) >= 1

\* C5: after a write of v through the reference peek_mut returned, peek and
\* peek_mut report v and pop returns v.
C5_PeekMutWrite ==
  [][(op = "write" /\ op' \in {"peek", "peek_mut", "pop"}) =>
        ret' = Some(arg)
    ]_vars

\* pop returned the value that the call before it wrote through peek_mut,
\* from a list of two elements or more.
C5_Witness ==
  /\ op = "pop"
  /\ prev_op = "write"
  /\ ret = Some(prev_arg)
  /\ Len(before) >= 2

\* C6: an Iter yields what repeated pops of the same list would return, in the
\* same order, all of it once its cursor is None; iter and Iter::next leave
\* the list as it was.
C6_IterAsPops ==
  [][/\ iter_live' =>
          /\ Len(iter_out') <= Len(PopAll(heap', head'))
          /\ iter_out' = SubSeq(PopAll(heap', head'), 1, Len(iter_out'))
          /\ (iter_next' = 0) => iter_out' = PopAll(heap', head')
     /\ op' \in {"iter", "iter_next"} =>
          /\ Elems' = Elems
          /\ heap' = heap
          /\ head' = head
    ]_vars

\* An Iter over a list of two elements or more has returned None.
C6_Witness ==
  /\ iter_live
  /\ op = "iter_next"
  /\ ret = None
  /\ Len(iter_out) >= 2

NoDuplicate(s) == \A i, j \in 1..Len(s) : s[i] = s[j] => i = j

\* C7: the nodes an IterMut has yielded, followed by those its cursor still
\* leads to, are the list's chain, with no node twice; once the cursor is None
\* the yielded nodes are all the list's nodes, each once, head first.
C7_IterMutOnce ==
  itm_live =>
    /\ handed \o Chain(heap, itm_next) = Chain(heap, head)
    /\ NoDuplicate(handed)
    /\ (itm_next = 0) =>
          /\ handed = Chain(heap, head)
          /\ Range(handed) = LiveNodes
          /\ Len(handed) = Cardinality(LiveNodes)

\* An IterMut over a list of two elements or more has returned None.
C7_Witness ==
  /\ itm_live
  /\ op = "iter_mut_next"
  /\ ret = None
  /\ Len(handed) >= 2

\* C8: each IntoIter::next returns what pop returns on the owned list: the
\* head element, which it removes, or None; once it has returned None the
\* list is empty.
C8_IntoIterPops ==
  [][op' = "into_iter_next" =>
        /\ ret' = pop_fn(heap, head).ret
        /\ ret' = IF Elems = <<>> THEN None ELSE Some(Head(Elems))
        /\ Elems' = IF Elems = <<>> THEN <<>> ELSE Tail(Elems)
        /\ (ret' = None) => (head' = 0 /\ LiveNodes' = {})
    ]_vars

\* An IntoIter has yielded an element and then returned None.
C8_Witness ==
  /\ owner = "into_iter"
  /\ op = "into_iter_next"
  /\ prev_op = "into_iter_next"
  /\ ret = None
  /\ nalloc >= 2
  /\ LiveNodes = {}

\* C9: every turn of the drop loop releases the one box cur_link holds and no
\* other, and goes on with that box's former next; the nesting of releases
\* never exceeds one.
C9_DropIterative ==
  [][/\ (owner = "dropping" /\ cur_link # 0) =>
          /\ LiveNodes \ LiveNodes' = {cur_link}
          /\ cur_link' = heap[cur_link].next
     /\ (owner = "dropping" /\ cur_link = 0) => LiveNodes' = LiveNodes
     /\ depth' <= 1
    ]_vars

\* A list of three elements or more has been dropped.
C9_Witness ==
  /\ owner = "dropped"
  /\ Len(before) >= 3
  /\ depth = 1
  /\ LiveNodes = {}

\* C9 for the first.rs list, under SpecFirst: every turn of the drop loop
\* releases the one box cur_link holds and no other, and the nesting of
\* releases never exceeds one.
C9_DropIterative_first ==
  [][/\ (first_owner = "dropping" /\ first_cur_link # 0) =>
          /\ first_LiveNodes \ first_LiveNodes' = {first_cur_link}
          /\ first_cur_link' = first_heap[first_cur_link].next
     /\ (first_owner = "dropping" /\ first_cur_link = 0) =>
          first_LiveNodes' = first_LiveNodes
     /\ first_depth' <= 1
    ]_vars

\* A first.rs list of three elements or more has been dropped.
C9_Witness_first ==
  /\ first_owner = "dropped"
  /\ Len(first_before) >= 3
  /\ first_depth = 1
  /\ first_LiveNodes = {}

\* The links that own box n: head, the local cur_link of drop, the next of
\* another box.
Owners(n) ==
  (IF head = n THEN {<<"head", 0>>} ELSE {})
    \cup (IF cur_link = n THEN {<<"cur_link", 0>>} ELSE {})
    \cup {<<"next", m>> : m \in {k \in LiveNodes : heap[k].next = n}}

\* C10: the chain from head has no node twice and ends, every link leads to an
\* existing box or is None, every box has exactly one owning link, and, while
\* the list is in use, head is None exactly when no box exists and the chain
\* from head holds every box.
C10_Structure ==
  /\ NoDuplicate(Chain(heap, head))
  /\ Len(Chain(heap, head)) <= MaxNodes
  /\ head \in LiveNodes \cup {0}
  /\ \A n \in LiveNodes : heap[n].next \in LiveNodes \cup {0}
  /\ \A n \in LiveNodes : Cardinality(Owners(n)) = 1
  /\ owner \in {"list", "into_iter"} =>
        /\ (head = 0) <=> (LiveNodes = {})
        /\ Range(Chain(heap, head)) = LiveNodes

\* A pop has left a list of three elements.
C10_Witness ==
  /\ owner = "list"
  /\ op = "pop"
  /\ ret # None
  /\ Len(Chain(heap, head)) >= 3

\* The boxes push has created so far.
Created == 1..nalloc

\* No box is released twice, the released boxes are exactly the created ones
\* that no longer exist, and after teardown every created box has been
\* released once and none exists.
LifecycleSafe ==
  /\ \A n \in NodeIds : released[n] <= 1
  /\ \A n \in NodeIds : (released[n] = 1) <=> (n \in Created /\ ~heap[n].live)
  /\ LiveNodes \subseteq Created
  /\ owner = "dropped" =>
        /\ LiveNodes = {}
        /\ \A n \in Created : released[n] = 1

\* C11: after any calls followed by the destruction of the list (or of the
\* IntoIter that owns it), teardown terminates, and by then every box push
\* created has been released exactly once, by pop or by teardown; no box is
\* ever released twice.
C11_Lifecycle ==
  /\ []LifecycleSafe
  /\ (owner = "dropping") ~> (owner = "dropped")

\* An IntoIter was dropped after yielding some of its elements, others having
\* been popped before: boxes released by pop and boxes released by teardown.
C11_Witness ==
  /\ owner = "dropped"
  /\ prev_op = "into_iter_next"
  /\ nalloc >= 3
  /\ Len(before) >= 2
  /\ Len(before) < nalloc
  /\ \A n \in Created : released[n] = 1

\* C12: while an IterMut is alive its cursor is never a node whose element
\* reference it has handed out: before the first step it is head, and after
\* every step it is the next of the node just yielded, or None.
C12_Exclusive ==
  itm_live =>
    /\ itm_next \notin Range(handed)
    /\ (handed = <<>>) => itm_next = head
    /\ (handed # <<>>) => itm_next = heap[handed[Len(handed)]].next

\* An IterMut has yielded two nodes and its cursor is on a third.
C12_Witness ==
  /\ itm_live
  /\ op = "iter_mut_next"
  /\ Len(handed) >= 2
  /\ itm_next # 0

\* C13: an Iter returns None only after yielding as many elements as the list
\* holds, and an Iter built after another ran to its end on the same
\* unmodified list yields the same sequence: a prefix of it at every step, all
\* of it once its cursor is None.
C13_IterRestart ==
  /\ (iter_live /\ op = "iter_next" /\ ret = None) =>
        /\ Len(iter_out) = Cardinality(LiveNodes)
        /\ Len(iter_out) = Len(Elems)
  /\ (iter_live /\ iter_prev # <<>>) =>
        /\ Len(iter_out) <= Len(iter_prev[1])
        /\ iter_out = SubSeq(iter_prev[1], 1, Len(iter_out))
        /\ (iter_next = 0) => iter_out = iter_prev[1]

\* A second Iter over an unmodified list of two elements or more has just
\* yielded its last element, the sequence the first one yielded before it
\* returned None.
C13_Witness ==
  /\ iter_live
  /\ op = "iter_next"
  /\ ret # None
  /\ iter_next = 0
  /\ iter_prev # <<>>
  /\ Len(iter_out) >= 2
  /\ iter_out = iter_prev[1]

\* The same call made on a second.rs list and on a first.rs list.
both_push(elem) == push(elem) /\ first_push(elem)

both_pop == pop /\ first_pop

NextBoth ==
  \/ \E e \in Elem : both_push(e)
  \/ both_pop

\* The two lists under every common sequence of push and pop calls.
SpecBoth == Init /\ [][NextBoth]_vars

\* C14: after every common sequence of new, push and pop calls the first.rs
\* list and the second.rs list hold the same element sequence, and their last
\* pop returned the same Option.
C14_Equivalent ==
  /\ first_op = op
  /\ first_Elems = Elems
  /\ (op = "pop") => first_ret = ret
  /\ (first_head = 0) <=> (head = 0)

\* Both lists have returned the same element from a second pop in a row and
\* still hold an element.
C14_Witness ==
  /\ op = "pop"
  /\ prev_op = "pop"
  /\ first_op = "pop"
  /\ ret # None
  /\ first_ret = ret
  /\ Len(first_Elems) >= 1

\* C15: for Iter, IterMut and IntoIter alike: next returns None only with the
\* cursor absent (for IntoIter, the owned list empty); the cursor of a live
\* traversal, once absent, stays absent; and next called with the cursor
\* absent returns None and changes neither the list nor the traversal.  So
\* every call after one that returned None returns None.
C15_StaysExhausted ==
  [][/\ (op' = "iter_next" /\ ret' = None) => iter_next' = 0
     /\ (iter_live /\ iter_next = 0 /\ iter_live' /\ op' # "iter") =>
          iter_next' = 0
     /\ (iter_live /\ iter_next = 0 /\ op' = "iter_next") =>
          /\ ret' = None
          /\ UNCHANGED <<heap, head, released, iter_next, iter_out, iter_live>>
     /\ (op' = "iter_mut_next" /\ ret' = None) => itm_next' = 0
     /\ (itm_live /\ itm_next = 0 /\ itm_live' /\ op' # "iter_mut") =>
          itm_next' = 0
     /\ (itm_live /\ itm_next = 0 /\ op' = "iter_mut_next") =>
          /\ ret' = None
          /\ UNCHANGED <<heap, head, released, itm_next, handed, itm_live>>
     /\ (op' = "into_iter_next" /\ ret' = None) => head' = 0
     /\ (owner = "into_iter" /\ head = 0 /\ owner' = "into_iter") => head' = 0
     /\ (owner = "into_iter" /\ head = 0 /\ op' = "into_iter_next") =>
          /\ ret' = None
          /\ UNCHANGED <<heap, head, released, owner>>
     /\ (op = op' /\ op \in {"iter_next", "iter_mut_next", "into_iter_next"}
           /\ ret = None) =>
          /\ ret' = None
          /\ UNCHANGED <<heap, head, released, iter_next, iter_out, itm_next,
                         handed, owner>>
    ]_vars

\* An Iter over a list of two elements or more has returned None twice in a
\* row.
C15_Witness ==
  /\ iter_live
  /\ op = "iter_next"
  /\ prev_op = "iter_next"
  /\ ret = None
  /\ prev_ret = None
  /\ Len(iter_out) >= 2

\* C16: a write of v through the reference yielded at the k-th step of
\* iter_mut sets the k-th element from the head to v and changes no other
\* element, no link and no box; the length is unchanged, and popping the list
\* afterwards returns v at position k.
C16_WritePositional ==
  [][op' = "iter_mut_write" =>
        /\ pos' \in 1..Len(Elems)
        /\ Elems' = [Elems EXCEPT ![pos'] = arg']
        /\ PopAll(heap', head') = [Elems EXCEPT ![pos'] = arg']
        /\ Len(Elems') = Len(Elems)
        /\ head' = head
        /\ LiveNodes' = LiveNodes
        /\ \A n \in NodeIds : heap'[n].next = heap[n].next
        /\ \A n \in NodeIds \ {Chain(heap, head)[pos']} : heap'[n] = heap[n]
    ]_vars

\* With three references yielded, a write through the second has changed the
\* second element from the head.
C16_Witness ==
  /\ itm_live
  /\ op = "iter_mut_write"
  /\ pos = 2
  /\ Len(handed) = 3
  /\ Len(Elems) >= 3
  /\ Elems[2] = arg
  /\ before[2] # arg
  /\ Elems[1] = before[1]
  /\ Elems[3] = before[3]

====
